---- MODULE Spec2Model ----
(***************************************************************************)
(* Model of the rizzcharts chat client:                                    *)
(*   services/chat_service.ts  ChatService  (turn history, context id,     *)
(*                                           stream-open flag, surfaces)   *)
(*   services/a2a_service.ts   A2aService   (the transport call)           *)
(*                                                                         *)
(* JavaScript runs one flow of control at a time, so every action below is *)
(* one synchronous run of code between two suspension points (await).      *)
(***************************************************************************)
EXTENDS Integers, Sequences, FiniteSets, TLC

(***************************************************************************)
(* Bounds of the model.                                                    *)
(***************************************************************************)
MaxCalls == 2
MaxParts == 2
MaxKeys == 2
MaxTaskParts == 3
MaxArtifacts == 2

(***************************************************************************)
(* JavaScript values.  A JSON value is represented by its JSON text; "X"   *)
(* stands for an object literal.  Undefined is the value of a missing      *)
(* property.                                                               *)
(***************************************************************************)
Undefined == "undefined"

FalsyValues == {Undefined, "null", "false", "0", ""}

Truthy(v) == v \notin FalsyValues

\* obj[key] on a JavaScript object modelled as a function from keys to values
Get(obj, key) == IF key \in DOMAIN obj THEN obj[key] ELSE Undefined

\* the object literal {key: value}
Envelope(key, value) == [k \in {key} |-> value]

\* null as returned by the map callback (an envelope always has one key)
NullMessage == [k \in {} |-> Undefined]

RECURSIVE Flatten(_)
Flatten(seqs) == IF seqs = <<>> THEN <<>> ELSE Head(seqs) \o Flatten(Tail(seqs))

\* Array.prototype.flatMap over the artifacts, the callback returning artifact.parts
FlatMapArtifactParts(artifacts) ==
  Flatten([i \in 1..Len(artifacts) |-> artifacts[i].parts])

(***************************************************************************)
(* chat_service.ts 97-109: the ordered parts of a task or message result.  *)
(***************************************************************************)
ClassifyMutNoStatus(result) ==
  IF result.kind = "task"
    THEN FlatMapArtifactParts(IF result.artifactsPresent THEN result.artifacts ELSE <<>>)
    ELSE result.parts

AgentResponseParts(result) ==
  IF result.kind = "task"
    THEN LET taskStatusParts == IF result.status.messagePresent
                                  THEN result.status.message.parts ELSE <<>>
             artifactParts == FlatMapArtifactParts(
                                IF result.artifactsPresent THEN result.artifacts ELSE <<>>)
         IN  taskStatusParts \o artifactParts
    ELSE result.parts

(***************************************************************************)
(* chat_service.ts 112-134: the map callback, part -> envelope or null.    *)
(***************************************************************************)
ToServerMessageMutPassThrough(part) ==
  IF part.kind = "data"
    THEN IF Truthy(Get(part.data, "beginRendering"))
           THEN Envelope("beginRendering", part.data["beginRendering"])
         ELSE IF Truthy(Get(part.data, "surfaceUpdate"))
           THEN Envelope("surfaceUpdate", part.data["surfaceUpdate"])
         ELSE IF Truthy(Get(part.data, "dataModelUpdate"))
           THEN Envelope("dataModelUpdate", part.data["dataModelUpdate"])
         ELSE IF Truthy(Get(part.data, "deleteSurface"))
           THEN Envelope("deleteSurface", part.data["deleteSurface"])
         ELSE part.data
    ELSE NullMessage

ToServerMessage(part) ==
  IF part.kind = "data"
    THEN IF Truthy(Get(part.data, "beginRendering"))
           THEN Envelope("beginRendering", part.data["beginRendering"])
         ELSE IF Truthy(Get(part.data, "surfaceUpdate"))
           THEN Envelope("surfaceUpdate", part.data["surfaceUpdate"])
         ELSE IF Truthy(Get(part.data, "dataModelUpdate"))
           THEN Envelope("dataModelUpdate", part.data["dataModelUpdate"])
         ELSE IF Truthy(Get(part.data, "deleteSurface"))
           THEN Envelope("deleteSurface", part.data["deleteSurface"])
         ELSE NullMessage
    ELSE NullMessage

\* chat_service.ts 135: .filter((message) => !!message)
IsMessage(message) == message # NullMessage

\* chat_service.ts 111-135: the command batch handed to the processor
A2uiDataPartsMutReversed(parts) ==
  LET kept == SelectSeq([i \in 1..Len(parts) |-> ToServerMessage(parts[i])], IsMessage)
  IN  [i \in 1..Len(kept) |-> kept[Len(kept) + 1 - i]]

A2uiDataParts(parts) ==
  SelectSeq([i \in 1..Len(parts) |-> ToServerMessage(parts[i])], IsMessage)

\* chat_service.ts 142-144: the filter of the parts shown in the chat log
IsUserVisibleMutAllData(part) == part.kind = "text" \/ part.kind = "data"

IsUserVisible(part) ==
  part.kind = "text" \/ (part.kind = "data" /\ "beginRendering" \in DOMAIN part.data)

\* chat_service.ts 141-151: the contents pushed to the agent message; uuid()
\* is modelled by the pair (owning message id, position)
NewContents(parts, owner) ==
  LET visible == SelectSeq(parts, IsUserVisible)
  IN  [i \in 1..Len(visible) |->
         [type |-> "ui_message_content", id |-> <<owner, i>>, data |-> visible[i]]]

(***************************************************************************)
(* a2a_service.ts 26-46: A2aService.sendMessage.  A fetch outcome is what  *)
(* the network gives back: no response at all (fetch rejects), or a        *)
(* response with its ok flag and a body that parses as JSON or does not.   *)
(***************************************************************************)
NoResult == [kind |-> "none"]

NoError == [name |-> "none", message |-> ""]

JsError(name, message) == [name |-> name, message |-> message]

Fulfilled(value) == [state |-> "fulfilled", value |-> value, reason |-> NoError]

Rejected(reason) == [state |-> "rejected", value |-> NoResult, reason |-> reason]

A2aSendMessage(fo) ==
  IF ~fo.responded THEN Rejected(JsError("TypeError", "Failed to fetch"))
  ELSE IF fo.ok
    THEN IF fo.parses THEN Fulfilled(fo.result)
                      ELSE Rejected(JsError("SyntaxError", "Unexpected token"))
    ELSE IF fo.parses THEN Rejected(JsError("Error", fo.error))
                      ELSE Rejected(JsError("SyntaxError", "Unexpected token"))

(***************************************************************************)
(* chat_service.ts 165-208: the part and the contents made of the input.   *)
(* An input is a string or a client event message; of the event message    *)
(* only userAction?.name is read.                                          *)
(***************************************************************************)
StringMessage(text) == [type |-> "string", text |-> text, userActionName |-> Undefined]

EventMessage(name) == [type |-> "event", text |-> "", userActionName |-> name]

CreateUserMessagePart(message) ==
  IF message.type = "string"
    THEN [kind |-> "text", text |-> message.text]
    ELSE [kind |-> "data", data |-> Envelope("userAction", message.userActionName)]

CreateUserMessageContents(message, owner) ==
  IF message.type = "string"
    THEN << [type |-> "ui_message_content", id |-> <<owner, 1>>,
             data |-> CreateUserMessagePart(message)] >>
  ELSE IF ~Truthy(message.userActionName) THEN <<>>
  ELSE << [type |-> "ui_message_content", id |-> <<owner, 1>>,
           data |-> [kind |-> "text", text |-> message.userActionName]] >>

(***************************************************************************)
(* State.                                                                  *)
(***************************************************************************)
VARIABLES
  history,            \* ChatService.history: sequence of UiMessage
  contextId,          \* ChatService.contextId
  isA2aStreamOpen,    \* ChatService.isA2aStreamOpen
  surfaces,           \* ChatService.surfaces: copy of the processor's surfaces
  processed,          \* ModelProcessor: the batches given to processMessages
  pc,                 \* per sendMessage call: where the call stands
  message,            \* per call: the argument of sendMessage
  request,            \* per call: what was handed to A2aService.sendMessage
  a2aPromise,         \* per call: the promise A2aService.sendMessage returned
  newAgentMessage,    \* per call: the local object newAgentMessage
  agentResponseParts, \* per call: the local agentResponseParts
  a2uiDataParts,      \* per call: the local a2uiDataParts
  sendPromise,        \* per call: the promise ChatService.sendMessage returned
  completion          \* per call: the terminal calls made on event.completion

vars == << history, contextId, isA2aStreamOpen, surfaces, processed, pc, message,
           request, a2aPromise, newAgentMessage, agentResponseParts,
           a2uiDataParts, sendPromise, completion >>

Calls == 1..MaxCalls

\* uuid() of the two messages of call c
UserId(c) == 2 * c - 1

AgentId(c) == 2 * c

NoMessage == [type |-> "none", text |-> "", userActionName |-> Undefined]

NoRequest == [request |-> <<>>, contextId |-> Undefined]

NoUiMessage == [type |-> "none", id |-> 0, context_id |-> "", role |-> "none",
                contents |-> <<>>, status |-> "none"]

Pending == [state |-> "pending", value |-> NoResult, reason |-> NoError]

\* ModelProcessor.getSurfaces(): the engine is opaque, its surfaces are
\* whatever the batches processed so far made them
GetSurfaces(batches) == batches

\* chat_service.ts 32-35 and the fields of a call that has not started
Init ==
  /\ history = <<>>
  /\ contextId = ""
  /\ isA2aStreamOpen = FALSE
  /\ processed = <<>>
  /\ surfaces = GetSurfaces(<<>>)
  /\ pc = [c \in Calls |-> "idle"]
  /\ message = [c \in Calls |-> NoMessage]
  /\ request = [c \in Calls |-> NoRequest]
  /\ a2aPromise = [c \in Calls |-> Pending]
  /\ newAgentMessage = [c \in Calls |-> NoUiMessage]
  /\ agentResponseParts = [c \in Calls |-> <<>>]
  /\ a2uiDataParts = [c \in Calls |-> <<>>]
  /\ sendPromise = [c \in Calls |-> Pending]
  /\ completion = [c \in Calls |-> <<>>]

(***************************************************************************)
(* chat_service.ts 50-88: sendMessage up to the await of the transport.    *)
(***************************************************************************)
NewUserMessage(c, m, ctx) ==
  [type |-> "ui_message", id |-> UserId(c), context_id |-> ctx, role |-> "ui_user",
   contents |-> CreateUserMessageContents(m, UserId(c)), status |-> "pending"]

NewAgentMessage(c, ctx) ==
  [type |-> "ui_message", id |-> AgentId(c), context_id |-> ctx, role |-> "ui_agent",
   contents |-> <<>>, status |-> "pending"]

\* chat_service.ts 78
HistoryAfterStart(curr, newUser, newAgent) == curr \o <<newUser, newAgent>>

SendMessageStart(c, m) ==
  /\ pc[c] = "idle"
  /\ \A d \in Calls : d < c => pc[d] # "idle"
  /\ history' = HistoryAfterStart(history, NewUserMessage(c, m, contextId),
                                  NewAgentMessage(c, contextId))
  /\ surfaces' = GetSurfaces(processed)
  /\ isA2aStreamOpen' = TRUE
  /\ message' = [message EXCEPT ![c] = m]
  /\ newAgentMessage' = [newAgentMessage EXCEPT ![c] = NewAgentMessage(c, contextId)]
  /\ request' = [request EXCEPT ![c] =
                   [request |-> <<CreateUserMessagePart(m)>>, contextId |-> contextId]]
  /\ pc' = [pc EXCEPT ![c] = "awaiting"]
  /\ UNCHANGED << contextId, processed, a2aPromise, agentResponseParts,
                  a2uiDataParts, sendPromise, completion >>

(***************************************************************************)
(* a2a_service.ts 27-45: the transport call of c comes back and settles    *)
(* the promise that sendMessage awaits at chat_service.ts 83.              *)
(***************************************************************************)
A2aSettles(c, fo) ==
  /\ pc[c] = "awaiting"
  /\ a2aPromise[c].state = "pending"
  /\ a2aPromise' = [a2aPromise EXCEPT ![c] = A2aSendMessage(fo)]
  /\ UNCHANGED << history, contextId, isA2aStreamOpen, surfaces, processed, pc,
                  message, request, newAgentMessage, agentResponseParts,
                  a2uiDataParts, sendPromise, completion >>

(***************************************************************************)
(* chat_service.ts 90-162: sendMessage after the transport has fulfilled.  *)
(***************************************************************************)
\* chat_service.ts 90-95
AdoptContextIdMutAlways(current, newContextId) ==
  IF newContextId = Undefined THEN "" ELSE newContextId

AdoptContextId(current, newContextId) ==
  IF Truthy(newContextId) THEN newContextId ELSE current

\* chat_service.ts 140: contents.push on the object newAgentMessage, which the
\* history array still references wherever that object sits in it.  The
\* object itself always stays pending: line 159 completes a copy of it.
PushContents(h, id, pushed) ==
  [i \in 1..Len(h) |->
     IF h[i].id = id /\ h[i].status = "pending"
       THEN [h[i] EXCEPT !.contents = @ \o pushed]
       ELSE h[i]]

\* chat_service.ts 159: { ...newAgentMessage, status: 'completed' }
CompletedCopyMutPending(agentMessage) == agentMessage

CompletedCopy(agentMessage) == [agentMessage EXCEPT !.status = "completed"]

\* chat_service.ts 155-161
HistoryAfterCompletionMutAppend(h, agentMessage) == h \o <<CompletedCopy(agentMessage)>>

HistoryAfterCompletionMutDropTwo(h, agentMessage) ==
  SubSeq(h, 1, Len(h) - 2) \o <<CompletedCopy(agentMessage)>>

HistoryAfterCompletion(h, agentMessage) ==
  SubSeq(h, 1, Len(h) - 1) \o <<CompletedCopy(agentMessage)>>

SendMessageResume(c) ==
  /\ pc[c] = "awaiting"
  /\ a2aPromise[c].state = "fulfilled"
  /\ LET result == a2aPromise[c].value
         parts == AgentResponseParts(result)
         commands == A2uiDataParts(parts)
         pushed == NewContents(parts, AgentId(c))
         agentMessage == [newAgentMessage[c] EXCEPT !.contents = @ \o pushed]
     IN  /\ contextId' = AdoptContextId(contextId, result.contextId)
         /\ agentResponseParts' = [agentResponseParts EXCEPT ![c] = parts]
         /\ a2uiDataParts' = [a2uiDataParts EXCEPT ![c] = commands]
         /\ processed' = Append(processed, commands)
         /\ newAgentMessage' = [newAgentMessage EXCEPT ![c] = agentMessage]
         /\ isA2aStreamOpen' = FALSE
         /\ history' = HistoryAfterCompletion(
                         PushContents(history, AgentId(c), pushed), agentMessage)
         /\ surfaces' = GetSurfaces(processed')
  /\ sendPromise' = [sendPromise EXCEPT ![c] = Fulfilled(NoResult)]
  /\ pc' = [pc EXCEPT ![c] = "returned"]
  /\ UNCHANGED << message, request, a2aPromise, completion >>

(***************************************************************************)
(* chat_service.ts 83: the awaited transport promise has rejected; the     *)
(* await throws and sendMessage rejects with the same reason.              *)
(***************************************************************************)
SendMessageRejectMutFinally(c) ==
  /\ pc[c] = "awaiting"
  /\ a2aPromise[c].state = "rejected"
  /\ sendPromise' = [sendPromise EXCEPT ![c] = Rejected(a2aPromise[c].reason)]
  /\ pc' = [pc EXCEPT ![c] = "returned"]
  /\ isA2aStreamOpen' = FALSE
  /\ UNCHANGED << history, contextId, surfaces, processed, message,
                  request, a2aPromise, newAgentMessage, agentResponseParts,
                  a2uiDataParts, completion >>

SendMessageReject(c) ==
  /\ pc[c] = "awaiting"
  /\ a2aPromise[c].state = "rejected"
  /\ sendPromise' = [sendPromise EXCEPT ![c] = Rejected(a2aPromise[c].reason)]
  /\ pc' = [pc EXCEPT ![c] = "returned"]
  /\ UNCHANGED << history, contextId, isA2aStreamOpen, surfaces, processed, message,
                  request, a2aPromise, newAgentMessage, agentResponseParts,
                  a2uiDataParts, completion >>

(***************************************************************************)
(* chat_service.ts 37-47: the subscriber of processor.events.  The call of *)
(* sendMessage runs inside the subscriber up to its await; the rest of the *)
(* subscriber runs once the promise of sendMessage has settled.            *)
(***************************************************************************)
\* completion.next([]) followed by completion.complete()
Succeed == [call |-> "next([]);complete()", error |-> NoError]

\* completion.error(err)
Fail(err) == [call |-> "error(err)", error |-> err]

\* a direct call of sendMessage with the text the user typed
UserSends(c, m) ==
  /\ m.type = "string"
  /\ SendMessageStart(c, m)

\* chat_service.ts 38-40
EventDelivered(c, m) ==
  /\ m.type = "event"
  /\ SendMessageStart(c, m)

\* chat_service.ts 41-42
SubscriberSucceeds(c) ==
  /\ pc[c] = "returned"
  /\ message[c].type = "event"
  /\ sendPromise[c].state = "fulfilled"
  /\ completion' = [completion EXCEPT ![c] = Append(@, Succeed)]
  /\ pc' = [pc EXCEPT ![c] = "notified"]
  /\ UNCHANGED << history, contextId, isA2aStreamOpen, surfaces, processed, message,
                  request, a2aPromise, newAgentMessage, agentResponseParts,
                  a2uiDataParts, sendPromise >>

\* chat_service.ts 43-45
SubscriberFailsMutNoCatch(c) ==
  /\ pc[c] = "returned"
  /\ message[c].type = "event"
  /\ sendPromise[c].state = "rejected"
  /\ pc' = [pc EXCEPT ![c] = "notified"]
  /\ UNCHANGED << history, contextId, isA2aStreamOpen, surfaces, processed, message,
                  request, a2aPromise, newAgentMessage, agentResponseParts,
                  a2uiDataParts, sendPromise, completion >>

SubscriberFails(c) ==
  /\ pc[c] = "returned"
  /\ message[c].type = "event"
  /\ sendPromise[c].state = "rejected"
  /\ completion' = [completion EXCEPT ![c] = Append(@, Fail(sendPromise[c].reason))]
  /\ pc' = [pc EXCEPT ![c] = "notified"]
  /\ UNCHANGED << history, contextId, isA2aStreamOpen, surfaces, processed, message,
                  request, a2aPromise, newAgentMessage, agentResponseParts,
                  a2uiDataParts, sendPromise >>

(***************************************************************************)
(* Inputs.                                                                 *)
(***************************************************************************)
Texts == {"hi"}

EventMessages == {EventMessage("select"), EventMessage(Undefined)}

TextPart(text) == [kind |-> "text", text |-> text]

DataPart(data) == [kind |-> "data", data |-> data]

MessageResult(ctx, parts) == [kind |-> "message", contextId |-> ctx, parts |-> parts]

NoStatusMessage == [messagePresent |-> FALSE, message |-> [parts |-> <<>>]]

StatusMessage(parts) == [messagePresent |-> TRUE, message |-> [parts |-> parts]]

Artifact(parts) == [parts |-> parts]

TaskResult(ctx, status, artifactsPresent, artifacts) ==
  [kind |-> "task", contextId |-> ctx, status |-> status,
   artifactsPresent |-> artifactsPresent, artifacts |-> artifacts]

Ok(result) == [responded |-> TRUE, ok |-> TRUE, parses |-> TRUE,
               result |-> result, error |-> ""]

FailingOutcomes ==
  { [responded |-> TRUE, ok |-> FALSE, parses |-> TRUE, result |-> NoResult, error |-> "boom"],
    [responded |-> TRUE, ok |-> FALSE, parses |-> FALSE, result |-> NoResult, error |-> ""],
    [responded |-> TRUE, ok |-> TRUE, parses |-> FALSE, result |-> NoResult, error |-> ""],
    [responded |-> FALSE, ok |-> FALSE, parses |-> FALSE, result |-> NoResult, error |-> ""] }

\* the outcomes the overlapping calls of Spec draw from
Outcomes ==
  { Ok(MessageResult(Undefined, <<TextPart("hello")>>)),
    Ok(MessageResult("", <<DataPart(Envelope("unknownKey", "1"))>>)),
    Ok(TaskResult("ctx-1", NoStatusMessage, TRUE,
                  <<Artifact(<<DataPart(Envelope("beginRendering", "X")),
                               DataPart(Envelope("surfaceUpdate", "X"))>>)>>)),
    Ok(TaskResult("ctx-2", StatusMessage(<<TextPart("done")>>), FALSE, <<>>)) }
  \cup {fo \in FailingOutcomes : fo.parses \/ ~fo.responded}

(***************************************************************************)
(* The client: any number of calls (up to MaxCalls) may overlap.           *)
(***************************************************************************)
Next ==
  \/ \E c \in Calls, t \in Texts : UserSends(c, StringMessage(t))
  \/ \E c \in Calls : EventDelivered(c, EventMessage("select"))
  \/ \E c \in Calls, fo \in Outcomes : A2aSettles(c, fo)
  \/ \E c \in Calls : SendMessageResume(c)
  \/ \E c \in Calls : SendMessageReject(c)
  \/ \E c \in Calls : SubscriberSucceeds(c)
  \/ \E c \in Calls : SubscriberFails(c)

Spec == Init /\ [][Next]_vars

(***************************************************************************)
(* One call at a time over every response of bounded size: the inputs of   *)
(* the classification (97-109) and of the routing (111-152).               *)
(***************************************************************************)
RecognizedKeys == {"beginRendering", "surfaceUpdate", "dataModelUpdate", "deleteSurface"}

Keys == RecognizedKeys \cup {"unknownKey"}

\* a truthy and a falsy JSON value
Values == {"X", "null"}

Payloads == UNION { [S -> Values] : S \in {T \in SUBSET Keys : Cardinality(T) <= MaxKeys} }

\* every part: a text part, or a data part with up to MaxKeys keys
PartUniverse == {TextPart("hello")} \cup {DataPart(d) : d \in Payloads}

\* the parts with at most one key
SimpleParts == {p \in PartUniverse : p.kind = "data" => Cardinality(DOMAIN p.data) <= 1}

SeqsUpTo(S, n) == UNION { [1..k -> S] : k \in 0..n }

TaskParts == { TextPart("hello"), DataPart(Envelope("beginRendering", "X")) }

\* message results: every sequence of up to MaxParts simple parts, and every
\* part on its own
MessageOutcomes ==
  { Ok(MessageResult(Undefined, ps)) : ps \in SeqsUpTo(SimpleParts, MaxParts) }
  \cup
  { Ok(MessageResult(Undefined, <<p>>)) : p \in PartUniverse }

\* the ways to cut n parts into a status message and a artifacts: f[0] parts
\* go to the status message, parts f[k-1]+1..f[k] to artifact k
CutsOf(n, a) == {f \in [0..a -> 0..n] : f[a] = n /\ \A k \in 1..a : f[k-1] <= f[k]}

TaskFrom(ps, a, f, statusPresent, artifactsPresent) ==
  TaskResult("ctx-1",
             IF f[0] = 0 /\ ~statusPresent THEN NoStatusMessage
                                           ELSE StatusMessage(SubSeq(ps, 1, f[0])),
             a > 0 \/ artifactsPresent,
             [k \in 1..a |-> Artifact(SubSeq(ps, f[k-1] + 1, f[k]))])

\* task results: every task of up to MaxTaskParts parts in all and up to
\* MaxArtifacts artifacts, with and without status message and artifact array
TaskOutcomes ==
  UNION { UNION { { Ok(TaskFrom(ps, a, f, sp, ap)) :
                      f \in CutsOf(Len(ps), a), sp \in BOOLEAN, ap \in BOOLEAN } :
                  a \in 0..MaxArtifacts } :
          ps \in SeqsUpTo(TaskParts, MaxTaskParts) }

WideOutcomes == MessageOutcomes \cup TaskOutcomes \cup FailingOutcomes

PartNext ==
  \/ \E t \in Texts : UserSends(1, StringMessage(t))
  \/ \E m \in EventMessages : EventDelivered(1, m)
  \/ \E fo \in WideOutcomes : A2aSettles(1, fo)
  \/ SendMessageResume(1)
  \/ SendMessageReject(1)
  \/ SubscriberSucceeds(1)
  \/ SubscriberFails(1)

PartSpec == Init /\ [][PartNext]_vars

(***************************************************************************)
(* The same client with the scheduling the event loop gives: a transport   *)
(* call that is out comes back, and a continuation that can run does run.  *)
(***************************************************************************)
Progress ==
  \/ \E c \in Calls, fo \in Outcomes : A2aSettles(c, fo)
  \/ \E c \in Calls : SendMessageResume(c)
  \/ \E c \in Calls : SendMessageReject(c)
  \/ \E c \in Calls : SubscriberSucceeds(c)
  \/ \E c \in Calls : SubscriberFails(c)

FairSpec == Spec /\ WF_vars(Progress)

(***************************************************************************)
(* The client used single-flight: no sendMessage starts while another is   *)
(* suspended at its await.  The code does not enforce this; it is the      *)
(* caller's discipline.                                                    *)
(***************************************************************************)
NoneInFlight == \A d \in Calls : pc[d] # "awaiting"

SerialNext ==
  \/ \E c \in Calls, t \in Texts : NoneInFlight /\ UserSends(c, StringMessage(t))
  \/ \E c \in Calls, m \in EventMessages : NoneInFlight /\ EventDelivered(c, m)
  \/ \E c \in Calls, fo \in Outcomes : A2aSettles(c, fo)
  \/ \E c \in Calls : SendMessageResume(c)
  \/ \E c \in Calls : SendMessageReject(c)
  \/ \E c \in Calls : SubscriberSucceeds(c)
  \/ \E c \in Calls : SubscriberFails(c)

SerialSpec == Init /\ [][SerialNext]_vars

(***************************************************************************)
(* Properties.                                                             *)
(***************************************************************************)
Started == {c \in Calls : pc[c] # "idle"}

\* C1: in every reachable state the history length is twice the number of
\* sendMessage calls started so far, whatever their transport calls did and
\* however the calls overlap.
C1_HistoryLength == Len(history) = 2 * Cardinality(Started)

\* two overlapping calls have both returned, one fulfilled and one rejected
C1_Witness ==
  \E c, d \in Calls :
    /\ sendPromise[c].state = "fulfilled"
    /\ sendPromise[d].state = "rejected"
    /\ Len(history) = 4

\* C2: when the transport call of a sendMessage call has rejected, sendMessage
\* rejects with the same reason and never fulfils, and the step in which it
\* rejects leaves the context id, the history, the surfaces snapshot, the
\* stream-open flag, the processor's batches and the call's agent message as
\* they were.
C2_RejectStep(c) ==
  /\ sendPromise'[c].state = "rejected"
  /\ sendPromise'[c].reason = a2aPromise[c].reason
  /\ contextId' = contextId
  /\ history' = history
  /\ surfaces' = surfaces
  /\ isA2aStreamOpen' = isA2aStreamOpen
  /\ processed' = processed
  /\ newAgentMessage'[c] = newAgentMessage[c]
  /\ a2uiDataParts'[c] = <<>>

C2_RejectLeavesStateAlone ==
  [][\A c \in Calls :
       (a2aPromise[c].state = "rejected" /\ sendPromise'[c] # sendPromise[c])
         => C2_RejectStep(c)]_vars

\* a call has rejected with the transport's "boom" while the stream is open
C2_Witness ==
  \E c \in Calls :
    /\ sendPromise[c].state = "rejected"
    /\ sendPromise[c].reason = JsError("Error", "boom")
    /\ isA2aStreamOpen
    /\ history[2 * c].status = "pending"

\* C3: for every delivered event exactly one terminal call is made on its
\* completion: next([]);complete() if its sendMessage fulfilled, error(err)
\* with the rejection reason if it rejected; never two calls, and, the
\* transport coming back, never none.  Direct calls make none.
C3_AtMostOnce ==
  \A c \in Calls :
    /\ Len(completion[c]) <= 1
    /\ message[c].type # "event" => completion[c] = <<>>
    /\ completion[c] # <<>> =>
         /\ sendPromise[c].state \in {"fulfilled", "rejected"}
         /\ sendPromise[c].state = "fulfilled" => completion[c] = <<Succeed>>
         /\ sendPromise[c].state = "rejected" =>
              completion[c] = <<Fail(a2aPromise[c].reason)>>
    /\ pc[c] = "notified" => completion[c] # <<>>

C3_ExactlyOneTerminalCall ==
  /\ []C3_AtMostOnce
  /\ \A c \in Calls :
       (message[c].type = "event") ~> (Len(completion[c]) = 1)

\* two events handled at once, one succeeded and one failed
C3_Witness ==
  \E c, d \in Calls :
    /\ completion[c] = <<Succeed>>
    /\ completion[d] = <<Fail(JsError("Error", "boom"))>>

\* C4: the context id starts empty; once non-empty it stays non-empty, and it
\* changes only to the truthy context id of the response a call resumes with.
C4_Step ==
  /\ contextId # "" => contextId' # ""
  /\ contextId' # contextId =>
       \E c \in Calls :
         /\ sendPromise[c].state = "pending"
         /\ sendPromise'[c].state = "fulfilled"
         /\ contextId' = a2aPromise[c].value.contextId

C4_ContextIdNeverReverts == (contextId = "") /\ [][C4_Step]_vars

\* a call that started with an adopted context id has fulfilled on a response
\* that supplied none (absent or empty), and the context id is still there
C4_Witness ==
  \E c \in Calls :
    /\ sendPromise[c].state = "fulfilled"
    /\ request[c].contextId # ""
    /\ ~Truthy(a2aPromise[c].value.contextId)
    /\ contextId # ""

(***************************************************************************)
(* Classification and routing, read off the state a fulfilled call leaves: *)
(* its response, its locals agentResponseParts and a2uiDataParts, and the  *)
(* contents of its agent message in the history.                           *)
(***************************************************************************)
Returned == {c \in Calls : sendPromise[c].state = "fulfilled"}

\* the contents of the agent message of c as the history shows them
ShownContents(c) == history[2 * c].contents

Occurrences(seq, x) == Cardinality({i \in 1..Len(seq) : seq[i] = x})

Wrapping(contents, part) == Cardinality({i \in 1..Len(contents) : contents[i].data = part})

HasOnlyKey(part, key) == part.kind = "data" /\ DOMAIN part.data = {key}

RecognizedKeysOf(part) ==
  IF part.kind = "data" THEN DOMAIN part.data \cap RecognizedKeys ELSE {}

RECURSIVE PartsBefore(_, _)
PartsBefore(artifacts, k) ==
  IF k <= 1 THEN 0 ELSE PartsBefore(artifacts, k - 1) + Len(artifacts[k - 1].parts)

\* C5: the classified parts of a task are the status message's parts (none
\* when there is no status message) followed by each artifact's parts, in
\* artifact order and in each artifact's own order (no artifact array: no
\* artifacts); of a message, the message's parts.  Stated position by position.
C5_ClassifiedOf(result, out) ==
  IF result.kind = "message" THEN out = result.parts
  ELSE LET statusParts == IF result.status.messagePresent
                            THEN result.status.message.parts ELSE <<>>
           artifacts == IF result.artifactsPresent THEN result.artifacts ELSE <<>>
           n == Len(statusParts)
       IN  /\ Len(out) = n + PartsBefore(artifacts, Len(artifacts) + 1)
           /\ \A i \in 1..n : out[i] = statusParts[i]
           /\ \A k \in 1..Len(artifacts) : \A j \in 1..Len(artifacts[k].parts) :
                out[n + PartsBefore(artifacts, k) + j] = artifacts[k].parts[j]

C5_ClassifyOrder ==
  \A c \in Returned : C5_ClassifiedOf(a2aPromise[c].value, agentResponseParts[c])

\* a task with a status part and two non-empty artifacts has been classified
C5_Witness ==
  /\ 1 \in Returned
  /\ a2aPromise[1].value.kind = "task"
  /\ a2aPromise[1].value.status.messagePresent
  /\ Len(a2aPromise[1].value.status.message.parts) = 1
  /\ Len(a2aPromise[1].value.artifacts) = 2
  /\ \A k \in 1..2 : Len(a2aPromise[1].value.artifacts[k].parts) = 1
  /\ a2aPromise[1].value.artifacts[1] # a2aPromise[1].value.artifacts[2]
  /\ Len(agentResponseParts[1]) = 3

\* C6: every data part whose payload is the single key beginRendering, with
\* any value X, has the envelope {beginRendering: X} in the commands once per
\* occurrence and one Content wrapping it in the contents per occurrence.
C6_BeginRenderingInBoth ==
  \A c \in Returned : \A i \in 1..Len(agentResponseParts[c]) :
    LET part == agentResponseParts[c][i] IN
    HasOnlyKey(part, "beginRendering") =>
      /\ Occurrences(a2uiDataParts[c], Envelope("beginRendering", part.data["beginRendering"]))
           = Occurrences(agentResponseParts[c], part)
      /\ Wrapping(ShownContents(c), part) = Occurrences(agentResponseParts[c], part)

\* C7 as stated: every data part whose payload is the single key surfaceUpdate,
\* dataModelUpdate or deleteSurface, with any value X, has the envelope
\* {key: X} in the commands once per occurrence and no Content.
C7_CommandOnlyOf(c, values) ==
  \A i \in 1..Len(agentResponseParts[c]) :
    \A key \in {"surfaceUpdate", "dataModelUpdate", "deleteSurface"} :
      LET part == agentResponseParts[c][i] IN
      (HasOnlyKey(part, key) /\ part.data[key] \in values) =>
        /\ Occurrences(a2uiDataParts[c], Envelope(key, part.data[key]))
             = Occurrences(agentResponseParts[c], part)
        /\ Wrapping(ShownContents(c), part) = 0

C8_Ignored ==
  \A c \in Calls :
    /\ a2aPromise[c].state = "fulfilled" => sendPromise[c].state # "rejected"
    /\ c \in Returned =>
         LET parts == agentResponseParts[c]
             ignored == {i \in 1..Len(parts) :
                           parts[i].kind = "data" /\ RecognizedKeysOf(parts[i]) = {}}
         IN  /\ \A i \in ignored : Wrapping(ShownContents(c), parts[i]) = 0
             /\ Len(a2uiDataParts[c]) <= Len(parts) - Cardinality(ignored)
             /\ Len(ShownContents(c)) <= Len(parts) - Cardinality(ignored)
             /\ history[2 * c].status = "completed"

\* a text part followed by an unknownKey part has been routed
C8_Witness ==
  /\ 1 \in Returned
  /\ agentResponseParts[1] = << TextPart("hello"), DataPart(Envelope("unknownKey", "X")) >>
  /\ Len(ShownContents(1)) = 1
  /\ a2uiDataParts[1] = <<>>

\* C9: a command is appended for a data part only when its payload carries
\* exactly one of the four recognized keys; a payload with two or more of them
\* contributes no envelope.
C9_OnlyExactlyOneKey ==
  \A c \in Returned :
    Len(a2uiDataParts[c]) <=
      Cardinality({i \in 1..Len(agentResponseParts[c]) :
                     Cardinality(RecognizedKeysOf(agentResponseParts[c][i])) = 1})

\* C10: the commands and the contents are each an order-preserving projection
\* of the parts: there is a strictly increasing map from the positions of the
\* commands (of the contents) to the positions of the parts they come from;
\* every text part has exactly one Content and stands behind no command.
C10_Increasing(f, n) == \A k \in 1..n : \A l \in 1..n : k < l => f[k] < f[l]

C10_ComesFrom(envelope, part) ==
  /\ part.kind = "data"
  /\ \A key \in DOMAIN envelope :
       key \in DOMAIN part.data /\ envelope[key] = part.data[key]

C10_Projection ==
  \A c \in Returned :
    LET parts == agentResponseParts[c]
        commands == a2uiDataParts[c]
        contents == ShownContents(c)
    IN  /\ \E f \in [1..Len(commands) -> 1..Len(parts)] :
             /\ C10_Increasing(f, Len(commands))
             /\ \A k \in 1..Len(commands) : C10_ComesFrom(commands[k], parts[f[k]])
        /\ \E g \in [1..Len(contents) -> 1..Len(parts)] :
             /\ C10_Increasing(g, Len(contents))
             /\ \A k \in 1..Len(contents) : contents[k].data = parts[g[k]]
        /\ \A i \in 1..Len(parts) :
             parts[i].kind = "text" =>
               Wrapping(contents, parts[i]) = Occurrences(parts, parts[i])

\* two different commands around a text part have been routed
C10_Witness ==
  /\ 1 \in Returned
  /\ Len(agentResponseParts[1]) >= 2
  /\ Len(a2uiDataParts[1]) = 2
  /\ a2uiDataParts[1][1] # a2uiDataParts[1][2]
  /\ Len(ShownContents(1)) >= 1

(***************************************************************************)
(* The history and the stream-open flag across whole cycles.               *)
(***************************************************************************)
DataOf(contents) == [i \in 1..Len(contents) |-> contents[i].data]

AgentSlots(h) == {i \in 1..Len(h) : h[i].role = "ui_agent"}

Resumes(c) == sendPromise[c].state = "pending" /\ sendPromise'[c].state = "fulfilled"

\* C11: when a call that overlaps no other call resumes from a fulfilled
\* transport call, the last history entry becomes that call's agent message,
\* completed, its contents the routed contents in order; the processor gets
\* exactly one more batch, the routed commands; the stream-open flag is false.
C11_Step(c) ==
  LET last == history'[Len(history')]
      parts == agentResponseParts'[c]
  IN  /\ Len(history') = Len(history)
      /\ Len(history') = 2 * c
      /\ \A i \in 1..(Len(history') - 1) : history'[i].id # AgentId(c)
      /\ last.id = AgentId(c)
      /\ last.role = "ui_agent"
      /\ last.status = "completed"
      /\ parts = AgentResponseParts(a2aPromise[c].value)
      /\ DataOf(last.contents) = SelectSeq(parts, IsUserVisible)
      /\ processed' = Append(processed, A2uiDataParts(parts))
      /\ ~isA2aStreamOpen'

C11_SerialCompletion == [][\A c \in Calls : Resumes(c) => C11_Step(c)]_vars

\* a second, non-overlapping call has completed with contents, and the
\* processor holds one batch per completed call
C11_Witness ==
  \E c \in Returned :
    /\ c > 1
    /\ history[Len(history)].id = AgentId(c)
    /\ history[Len(history)].status = "completed"
    /\ history[Len(history)].contents # <<>>
    /\ Len(processed) = Cardinality(Returned)
    /\ ~isA2aStreamOpen

\* C12: the agent message of a call whose transport call rejected stays in the
\* history, pending and with empty contents, whatever other calls then do.
C12_FailedTurnStays ==
  \A c \in Calls :
    sendPromise[c].state = "rejected" =>
      \E i \in 1..Len(history) :
        /\ history[i].id = AgentId(c)
        /\ history[i].status = "pending"
        /\ history[i].contents = <<>>

\* C13 as stated: once a call's transport call has rejected, the stream-open
\* flag is true, in that state and in every later one.
C13_StuckOpen ==
  (\E c \in Calls : sendPromise[c].state = "rejected") => isA2aStreamOpen

\* C13 amended: a rejecting call leaves the stream-open flag as it finds it,
\* and the only step that ever clears the flag is the successful completion
\* of a call (line 154); so after a rejected call the flag stays true until
\* some call, overlapping or later, completes successfully.
C13_Step ==
  /\ \A c \in Calls :
       (sendPromise[c].state = "pending" /\ sendPromise'[c].state = "rejected")
         => isA2aStreamOpen' = isA2aStreamOpen
  /\ (isA2aStreamOpen /\ ~isA2aStreamOpen') => \E c \in Calls : Resumes(c)

C13_OnlySuccessClears == [][C13_Step]_vars

\* a call has rejected with the flag left true, and a later call has started
\* with the flag still true
C13_Witness ==
  \E c, d \in Calls :
    /\ c < d
    /\ sendPromise[c].state = "rejected"
    /\ pc[d] = "awaiting"
    /\ isA2aStreamOpen

\* C14: the history is append-only: across every step the ids of the history
\* before the step are a prefix of the ids after it.
C14_IdsPrefix ==
  /\ Len(history) <= Len(history')
  /\ \A i \in 1..Len(history) : history'[i].id = history[i].id

C14_AppendOnly == [][C14_IdsPrefix]_vars

\* C15 as stated: single-flight, at most one agent message of the history is
\* pending.
C15_PendingAgents == {i \in AgentSlots(history) : history[i].status = "pending"}

C15_AtMostOnePending == Cardinality(C15_PendingAgents) <= 1

\* C15 amended: single-flight, every pending agent message belongs to the one
\* call in flight or to a call whose transport call rejected, so there are at
\* most one plus the number of failed cycles of them.
C15_PendingOnlyInFlightOrFailed ==
  /\ Cardinality({c \in Calls : pc[c] = "awaiting"}) <= 1
  /\ \A i \in C15_PendingAgents :
       \E c \in Calls :
         /\ history[i].id = AgentId(c)
         /\ pc[c] = "awaiting" \/ sendPromise[c].state = "rejected"
  /\ Cardinality(C15_PendingAgents)
       <= Cardinality({c \in Calls : pc[c] = "awaiting"})
          + Cardinality({c \in Calls : sendPromise[c].state = "rejected"})

\* a failed cycle followed by a successful one: one pending agent message left
C15_Witness ==
  \E c, d \in Calls :
    /\ c < d
    /\ sendPromise[c].state = "rejected"
    /\ sendPromise[d].state = "fulfilled"
    /\ Cardinality(C15_PendingAgents) = 1

\* C16: every failure of the transport call surfaces as the transport's own
\* error, the Error thrown at a2a_service.ts 45, and no other kind of error
\* reaches the caller of A2aService.sendMessage, the caller of
\* ChatService.sendMessage or an event's completion.
C16_IsTransportError(err) == err.name = "Error"

C16_OnlyTransportErrors ==
  \A c \in Calls :
    /\ a2aPromise[c].state = "rejected" => C16_IsTransportError(a2aPromise[c].reason)
    /\ sendPromise[c].state = "rejected" => C16_IsTransportError(sendPromise[c].reason)
    /\ \A k \in 1..Len(completion[c]) :
         completion[c][k].call = "error(err)" => C16_IsTransportError(completion[c][k].error)

\* C17: when the started calls overlapped and have all fulfilled, every agent
\* message of the history is completed and carries the contents routed from
\* its own call's response, and every call's agent message is there.
C17_AllReturned == Started # {} /\ \A c \in Started : sendPromise[c].state = "fulfilled"

C17_OwnContents(i) ==
  \E c \in Started :
    /\ history[i].id = AgentId(c)
    /\ history[i].status = "completed"
    /\ DataOf(history[i].contents) = SelectSeq(agentResponseParts[c], IsUserVisible)

C17_EachCompletesItsOwn ==
  C17_AllReturned =>
    /\ \A i \in AgentSlots(history) : C17_OwnContents(i)
    /\ \A c \in Started : \E i \in AgentSlots(history) : history[i].id = AgentId(c)

\* C18: the ids of the history are pairwise distinct.
C18_DistinctIds ==
  \A i, j \in 1..Len(history) : i # j => history[i].id # history[j].id

\* C19: whenever a call is suspended awaiting its transport response, the
\* stream-open flag is true.
C19_OpenWhileInFlight == (\E c \in Calls : pc[c] = "awaiting") => isA2aStreamOpen

\* C20: a user message, once appended, keeps its slot, its contents and its
\* status pending through every later step; the last slot of a non-empty
\* history is always an agent message.
C20_LastIsAgent == history # <<>> => history[Len(history)].role = "ui_agent"

C20_UserTurnsAsBuilt ==
  \A c \in Started :
    /\ Len(history) >= 2 * c - 1
    /\ history[2 * c - 1] = NewUserMessage(c, message[c], request[c].contextId)

C20_Frame ==
  \A i \in 1..Len(history) :
    history[i].role = "ui_user" => (Len(history') >= i /\ history'[i] = history[i])

C20_UserTurnUntouched == [](C20_LastIsAgent /\ C20_UserTurnsAsBuilt) /\ [][C20_Frame]_vars

\* two overlapping calls have both completed; both user messages are in
\* their slots, still pending
C20_Witness ==
  /\ MaxCalls >= 2
  /\ \A c \in 1..2 : sendPromise[c].state = "fulfilled"
  /\ history[2].status = "pending" /\ history[4].status = "completed"
  /\ history[1].role = "ui_user" /\ history[1].status = "pending"
  /\ history[3].role = "ui_user" /\ history[3].status = "pending"

====
